---- MODULE Spec2Model ----
(***************************************************************************)
(* Model of scripts/skill_resolver.py: the skill registry, the validator,  *)
(* the dependency resolver, the cycle detector, the tool aggregator, the   *)
(* graph export and the exit status of the commands; and of the loader of  *)
(* scripts/generate_agents.py.                                             *)
(*                                                                         *)
(* A registry is a function from skill name to SkillMeta record (the       *)
(* Python dict `skills`).  Formatted messages (f-strings) are modelled as  *)
(* the tuple of their literal and interpolated pieces.  The fields no      *)
(* operation reads (reason, description, packages, parameters, examples)   *)
(* are carried with one fixed value, the description except where the     *)
(* registry is built.                                                      *)
(*                                                                         *)
(* Spec runs the operations as atomic actions on a registry drawn from     *)
(* bounded families; SpecSteps runs resolve_skill_dependencies one step    *)
(* at a time with an explicit call stack; SpecCalls runs both, operations  *)
(* first and resolver calls after them; SpecLoad builds the registry from  *)
(* the entries of the skills directory.                                    *)
(***************************************************************************)
EXTENDS Naturals, Sequences, FiniteSets, TLC

VARIABLES skills, environ, op, arg, ret, exit_status, pc, stack, resolved, unresolved

vars == <<skills, environ, op, arg, ret, exit_status, pc, stack, resolved, unresolved>>

(***************************************************************************)
(* Bounds of the explored inputs.                                          *)
(***************************************************************************)
\* Dependency edges declared in a registry, in total.
MaxEdges == 2
\* Tools declared in a registry of the tool family, in total.
MaxTools == 2
\* Environment requirements of the validated skill.
MaxEnv == 2
\* Cap on the depth of the explicit call stack; above the number of skills.
MaxDepth == 6

Names == {"A", "B", "C"}
AllNames == Names \cup {"D"}
KeySets == {{"A"}, {"A", "B"}, {"A", "B", "C"}}
EnvNames == {"E1", "E2"}
EnvValues == {"", "v"}

(***************************************************************************)
(* Generic helpers.                                                        *)
(***************************************************************************)
SeqToSet(s) == {s[i] : i \in 1..Len(s)}

SeqsUpTo(V, n) == UNION {[1..k -> V] : k \in 0..n}

Perms(S) == {p \in [1..Cardinality(S) -> S] : \A i, j \in 1..Cardinality(S) : p[i] = p[j] => i = j}

EmptyFn == [x \in {} |-> x]

RECURSIVE Flatten(_)
Flatten(ss) == IF ss = <<>> THEN <<>> ELSE Head(ss) \o Flatten(Tail(ss))

\* The functions from keys to sequences over V of total length <= budget.
RECURSIVE Assign(_, _, _)
Assign(keys, budget, V) ==
    IF keys = {} THEN {EmptyFn}
    ELSE LET k == CHOOSE x \in keys : TRUE
             rest(l) == Assign(keys \ {k}, budget - l, V)
         IN UNION {{(k :> s) @@ r : s \in [1..l -> V], r \in rest(l)} : l \in 0..budget}

(***************************************************************************)
(* Data types (dataclasses of the source).                                 *)
(***************************************************************************)
ToolDefinition(name, category, command, aliases) ==
    [name |-> name, category |-> category, description |-> "", command |-> command,
     parameters |-> <<>>, examples |-> <<>>, aliases |-> aliases]

SkillDependency(name, required, auto_load) ==
    [name |-> name, required |-> required, reason |-> "", auto_load |-> auto_load]

EnvironmentRequirement(name, required) ==
    [name |-> name, required |-> required, description |-> ""]

SkillMeta(name, tools, deps, env) ==
    [name |-> name, description |-> "d", tools |-> tools,
     dependencies |-> [skills |-> deps, packages |-> <<>>, environment |-> env]]

(***************************************************************************)
(* Input families.                                                         *)
(***************************************************************************)
EdgeVals == {SkillDependency(n, r, a) : n \in Names, r \in BOOLEAN, a \in BOOLEAN}

OwnToolName == ("A" :> "ta") @@ ("B" :> "tb") @@ ("C" :> "tc") @@ ("D" :> "td")

OwnTools(n) == <<ToolDefinition(OwnToolName[n], "cli", n, <<>>)>>

\* The registry with the given keys, tool lists and dependency lists.
RECURSIVE Registry(_, _, _)
Registry(keys, tools, deps) ==
    IF keys = {} THEN EmptyFn
    ELSE LET k == CHOOSE x \in keys : TRUE
         IN (k :> SkillMeta(k, tools[k], deps[k], <<>>)) @@ Registry(keys \ {k}, tools, deps)

GraphInput ==
    \E keys \in KeySets : \E f \in Assign(keys, MaxEdges, EdgeVals) :
        /\ skills = Registry(keys, [n \in AllNames |-> OwnTools(n)], f)
        /\ environ = EmptyFn

ToolVals == {ToolDefinition(n, "cli", c, al) :
             n \in {"t1", "t2"}, c \in {"c1", "c2"}, al \in {<<>>, <<"t1">>}}

AutoShapes ==
    LET e(n, r, a) == SkillDependency(n, r, a)
    IN {("A" :> <<>>) @@ ("B" :> <<>>),
        ("A" :> <<e("B", FALSE, TRUE)>>) @@ ("B" :> <<>>),
        ("A" :> <<e("B", TRUE, FALSE)>>) @@ ("B" :> <<>>),
        ("A" :> <<e("B", TRUE, TRUE)>>) @@ ("B" :> <<e("A", FALSE, TRUE)>>)}

ToolInput ==
    \E t \in Assign({"A", "B"}, MaxTools, ToolVals) : \E g \in AutoShapes :
        /\ skills = Registry({"A", "B"}, t, g)
        /\ environ = EmptyFn

EnvVals == {EnvironmentRequirement(n, r) : n \in EnvNames, r \in BOOLEAN}

CheckedTools == {<<>>} \cup {<<ToolDefinition(n, c, "c1", <<>>)>> : n \in {"", "t1"}, c \in {"", "cli"}}

Environs == UNION {[D -> EnvValues] : D \in SUBSET EnvNames}

ValidateInput ==
    \E keys \in {{"A"}, {"A", "B"}} : \E t \in CheckedTools :
    \E d \in {<<>>, <<SkillDependency("B", FALSE, FALSE)>>} :
    \E e \in SeqsUpTo(EnvVals, MaxEnv) :
        /\ skills = IF "B" \in keys
                    THEN ("A" :> SkillMeta("A", t, d, e)) @@ ("B" :> SkillMeta("B", <<>>, <<>>, <<>>))
                    ELSE ("A" :> SkillMeta("A", t, d, e))
        /\ environ \in Environs

\* The registries of the spec's worked examples.
Diamond ==
    LET r(n) == SkillDependency(n, TRUE, FALSE)
        d == ("A" :> <<r("B"), r("C")>>) @@ ("B" :> <<r("D")>>) @@ ("C" :> <<r("D")>>) @@ ("D" :> <<>>)
    IN Registry(AllNames, [n \in AllNames |-> OwnTools(n)], d)

AutoChain ==
    LET a(n) == SkillDependency(n, FALSE, TRUE)
        d == ("A" :> <<a("B")>>) @@ ("B" :> <<a("C")>>) @@ ("C" :> <<>>)
    IN Registry(Names, [n \in AllNames |-> OwnTools(n)], d)

\* A requires the absent D, B has no edge, C optionally depends on the absent D.
PartlyBroken ==
    LET d == ("A" :> <<SkillDependency("D", TRUE, FALSE)>>) @@ ("B" :> <<>>)
             @@ ("C" :> <<SkillDependency("D", FALSE, FALSE)>>)
    IN Registry(Names, [n \in AllNames |-> OwnTools(n)], d)

\* Two skills whose names differ in "-" and "_" only, depending on each other.
Hyphenated ==
    LET d == ("web-search" :> <<SkillDependency("web_search", TRUE, TRUE)>>)
             @@ ("web_search" :> <<SkillDependency("web-search", FALSE, FALSE)>>)
    IN Registry({"web-search", "web_search"}, [n \in {"web-search", "web_search"} |-> <<>>], d)

ExampleInput ==
    /\ skills \in {Diamond, AutoChain, PartlyBroken, Hyphenated}
    /\ environ = EmptyFn

(***************************************************************************)
(* validate_skill                                                          *)
(***************************************************************************)
\* The truth value of os.environ.get(name): None (unset) and "" are both falsy.
EnvironGet(env, name) == name \in DOMAIN env /\ env[name] # ""

\* Variant: only required edges are checked.
DepMissingRequiredOnly(dep, sk) == dep.required /\ dep.name \notin DOMAIN sk

DepMissing(dep, sk) == dep.name \notin DOMAIN sk

\* Variant: the `required` flag of the requirement is not consulted.
EnvMissingAnyFlag(e, env) == ~EnvironGet(env, e.name)

EnvMissing(e, env) == e.required /\ ~EnvironGet(env, e.name)

MissingDependencyMsg(depName, skill_name) ==
    <<"Missing dependency: '", depName, "' required by '", skill_name, "'">>

MissingEnvMsg(name) == <<"Missing required environment variable: ", name>>

ToolErrors(tool, skill_name) ==
    (IF tool.name = "" THEN <<<<"Tool missing 'name' in skill '", skill_name, "'">>>> ELSE <<>>)
    \o (IF tool.category = ""
        THEN <<<<"Tool '", tool.name, "' missing 'category' in skill '", skill_name, "'">>>>
        ELSE <<>>)

validate_skill(skill_name, sk, env) ==
    IF skill_name \notin DOMAIN sk THEN <<<<"Skill '", skill_name, "' not found">>>>
    ELSE LET skill == sk[skill_name]
             deps == SelectSeq(skill.dependencies.skills, LAMBDA d : DepMissing(d, sk))
             envs == SelectSeq(skill.dependencies.environment, LAMBDA e : EnvMissing(e, env))
         IN [i \in 1..Len(deps) |-> MissingDependencyMsg(deps[i].name, skill_name)]
            \o [i \in 1..Len(envs) |-> MissingEnvMsg(envs[i].name)]
            \o Flatten([i \in 1..Len(skill.tools) |-> ToolErrors(skill.tools[i], skill_name)])

(***************************************************************************)
(* check_all_dependencies                                                  *)
(***************************************************************************)
\* Variant: every skill is entered in the result.
HasErrorsAlways(errors) == TRUE

HasErrors(errors) == errors # <<>>

\* The returned dict, as the function from its keys to their error lists.
check_all_dependencies(sk, env) ==
    LET failing == {n \in DOMAIN sk : HasErrors(validate_skill(n, sk, env))}
    IN [n \in failing |-> validate_skill(n, sk, env)]

(***************************************************************************)
(* resolve_skill_dependencies                                              *)
(***************************************************************************)
CircularMsg(name) == <<"Circular dependency detected: ", name>>

NotFoundMsg(name) == <<"Skill not found: ", name>>

\* Variant: an absent name is passed over without a message.
NotFoundReturnSilent(name) == <<>>

\* The missing list returned for a name that is not in the registry.
NotFoundReturn(name) == <<NotFoundMsg(name)>>

\* Variant: the on-stack test is dropped.
IsCircularNever(name, unres) == FALSE

IsCircular(name, unres) == name \in unres

\* Variant: the memoization test is dropped.
AlreadyResolvedNever(name, res) == FALSE

AlreadyResolved(name, res) == name \in res

\* Variant: only required edges are followed.
FollowedRequiredOnly(dep) == dep.required

Followed(dep) == dep.required \/ dep.auto_load

\* Variant: the skill is placed before its dependencies (pre-order).
PlaceSelfFirst(order, name) == <<name>> \o order

PlaceSelf(order, name) == Append(order, name)

\* The value of one call: the returned (order, missing) and the two sets the
\* call tree shares and mutates.
RECURSIVE resolve_skill_dependencies(_, _, _, _)
RECURSIVE ResolveLoop(_, _, _, _)
resolve_skill_dependencies(skill_name, sk, res, unres) ==
    IF IsCircular(skill_name, unres)
    THEN [order |-> <<>>, missing |-> <<CircularMsg(skill_name)>>, resolved |-> res, unresolved |-> unres]
    ELSE IF AlreadyResolved(skill_name, res)
    THEN [order |-> <<>>, missing |-> <<>>, resolved |-> res, unresolved |-> unres]
    ELSE IF skill_name \notin DOMAIN sk
    THEN [order |-> <<>>, missing |-> NotFoundReturn(skill_name), resolved |-> res, unresolved |-> unres]
    ELSE LET st == ResolveLoop(sk[skill_name].dependencies.skills, 1, sk,
                               [order |-> <<>>, missing |-> <<>>, resolved |-> res,
                                unresolved |-> unres \cup {skill_name}])
         IN [order |-> PlaceSelf(st.order, skill_name), missing |-> st.missing,
             resolved |-> st.resolved \cup {skill_name},
             unresolved |-> st.unresolved \ {skill_name}]

ResolveLoop(deps, i, sk, st) ==
    IF i > Len(deps) THEN st
    ELSE IF Followed(deps[i])
    THEN LET r == resolve_skill_dependencies(deps[i].name, sk, st.resolved, st.unresolved)
         IN ResolveLoop(deps, i + 1, sk,
                        [order |-> st.order \o r.order, missing |-> st.missing \o r.missing,
                         resolved |-> r.resolved, unresolved |-> r.unresolved])
    ELSE ResolveLoop(deps, i + 1, sk, st)

\* A call with the default arguments (resolved=None, unresolved=None).
resolveOrder(skill_name, sk) ==
    LET r == resolve_skill_dependencies(skill_name, sk, {}, {})
    IN [order |-> r.order, missing |-> r.missing]


(***************************************************************************)
(* detect_circular_dependencies                                            *)
(***************************************************************************)
\* Variant: the scan follows only the edges the resolver follows.
CycleEdgeFollowedOnly(dep, sk) == dep.name \in DOMAIN sk /\ (dep.required \/ dep.auto_load)

CycleEdge(dep, sk) == dep.name \in DOMAIN sk

\* path.index(skill_name): the first position of the name in the path.
PathIndex(path, name) == CHOOSE i \in 1..Len(path) : path[i] = name /\ \A j \in 1..(i - 1) : path[j] # name

\* Variant: the whole traversal path is recorded, not its tail from the repeat.
RecordCycleWholePath(path, name) == path \o <<name>>

RecordCycle(path, name) == SubSeq(path, PathIndex(path, name), Len(path)) \o <<name>>

\* st = [visited, cycles]: the set one start's traversal shares and the list
\* the whole scan appends to.  `path` is passed by copy.
RECURSIVE dfs(_, _, _, _)
RECURSIVE DfsLoop(_, _, _, _, _)
dfs(skill_name, st, path, sk) ==
    IF skill_name \in SeqToSet(path)
    THEN [visited |-> st.visited, cycles |-> Append(st.cycles, RecordCycle(path, skill_name))]
    ELSE IF skill_name \in st.visited THEN st
    ELSE DfsLoop(sk[skill_name].dependencies.skills, 1,
                 [visited |-> st.visited \cup {skill_name}, cycles |-> st.cycles],
                 Append(path, skill_name), sk)

DfsLoop(deps, i, st, path, sk) ==
    IF i > Len(deps) THEN st
    ELSE IF CycleEdge(deps[i], sk)
    THEN DfsLoop(deps, i + 1, dfs(deps[i].name, st, path, sk), path, sk)
    ELSE DfsLoop(deps, i + 1, st, path, sk)

\* keyOrder: the iteration order of the dict, i.e. the order in which the
\* skill directories were listed.
RECURSIVE ScanFrom(_, _, _, _)
ScanFrom(keyOrder, i, cycles, sk) ==
    IF i > Len(keyOrder) THEN cycles
    ELSE ScanFrom(keyOrder, i + 1, dfs(keyOrder[i], [visited |-> {}, cycles |-> cycles], <<>>, sk).cycles, sk)

detect_circular_dependencies(sk, keyOrder) == ScanFrom(keyOrder, 1, <<>>, sk)

(***************************************************************************)
(* get_tools_for_skill                                                     *)
(***************************************************************************)
\* Variant: the aggregator follows the edges the resolver follows.
AutoFollowedOrRequired(dep) == dep.required \/ dep.auto_load

AutoFollowed(dep) == dep.auto_load

\* st = [resolved, all_tools]: the closure variables of collect_tools.
RECURSIVE collect_tools(_, _, _)
RECURSIVE CollectLoop(_, _, _, _)
collect_tools(name, st, sk) ==
    IF name \in st.resolved \/ name \notin DOMAIN sk THEN st
    ELSE LET after == CollectLoop(sk[name].dependencies.skills, 1,
                                  [resolved |-> st.resolved \cup {name}, all_tools |-> st.all_tools], sk)
         IN [resolved |-> after.resolved, all_tools |-> after.all_tools \o sk[name].tools]

CollectLoop(deps, i, st, sk) ==
    IF i > Len(deps) THEN st
    ELSE IF AutoFollowed(deps[i])
    THEN CollectLoop(deps, i + 1, collect_tools(deps[i].name, st, sk), sk)
    ELSE CollectLoop(deps, i + 1, st, sk)

get_tools_for_skill(skill_name, sk) ==
    collect_tools(skill_name, [resolved |-> {}, all_tools |-> <<>>], sk).all_tools

(***************************************************************************)
(* generate_tool_manifest                                                  *)
(***************************************************************************)
\* The dict built for one tool.
ToolDef(tool) ==
    [name |-> tool.name, category |-> tool.category, description |-> tool.description,
     command |-> tool.command,
     parameters |-> [i \in 1..Len(tool.parameters) |->
                        [name |-> tool.parameters[i].name, type |-> tool.parameters[i].type,
                         required |-> tool.parameters[i].required,
                         default |-> tool.parameters[i].default,
                         description |-> tool.parameters[i].description]],
     examples |-> tool.examples, aliases |-> tool.aliases]

\* Variant: an existing entry is kept (first write wins).
IndexPutIfAbsent(index, key, tool_def) == index @@ (key :> tool_def)

\* manifest["tool_index"][key] = tool_def
IndexPut(index, key, tool_def) == (key :> tool_def) @@ index

RECURSIVE IndexAliases(_, _, _, _)
IndexAliases(index, aliases, i, tool_def) ==
    IF i > Len(aliases) THEN index
    ELSE IndexAliases(IndexPut(index, aliases[i], tool_def), aliases, i + 1, tool_def)

RECURSIVE ManifestLoop(_, _, _)
ManifestLoop(tools, i, manifest) ==
    IF i > Len(tools) THEN manifest
    ELSE LET tool_def == ToolDef(tools[i])
         IN ManifestLoop(tools, i + 1,
                [skill |-> manifest.skill,
                 tools |-> Append(manifest.tools, tool_def),
                 tool_index |-> IndexAliases(IndexPut(manifest.tool_index, tools[i].name, tool_def),
                                             tools[i].aliases, 1, tool_def)])

generate_tool_manifest(skill_name, sk) ==
    ManifestLoop(get_tools_for_skill(skill_name, sk), 1,
                 [skill |-> skill_name, tools |-> <<>>, tool_index |-> EmptyFn])

(***************************************************************************)
(* State machine: one action per operation.                                *)
(***************************************************************************)
Init == /\ (GraphInput \/ ToolInput \/ ValidateInput \/ ExampleInput)
        /\ op = "none"
        /\ arg = ""
        /\ ret = <<>>
        /\ exit_status = 0
        /\ pc = "idle"
        /\ stack = <<>>
        /\ resolved = {}
        /\ unresolved = {}

Args == Names \cup DOMAIN skills

\* `if errors: ... sys.exit(1)`: a non-empty list or dict is truthy; a
\* command that runs to the end of main leaves the interpreter with status 0.
ExitNormally == 0

ExitOnProblems(problems) == IF DOMAIN problems # {} THEN 1 ELSE ExitNormally

Validate(n) ==
    /\ pc = "idle"
    /\ op' = "validate"
    /\ arg' = n
    /\ ret' = validate_skill(n, skills, environ)
    /\ exit_status' = ExitOnProblems(ret')
    /\ UNCHANGED <<skills, environ, pc, stack, resolved, unresolved>>

CheckAll ==
    /\ pc = "idle"
    /\ op' = "check-deps"
    /\ arg' = ""
    /\ ret' = check_all_dependencies(skills, environ)
    /\ exit_status' = ExitOnProblems(ret')
    /\ UNCHANGED <<skills, environ, pc, stack, resolved, unresolved>>

Resolve(n) ==
    /\ pc = "idle"
    /\ op' = "resolve"
    /\ arg' = n
    /\ ret' = resolveOrder(n, skills)
    /\ exit_status' = ExitNormally
    /\ UNCHANGED <<skills, environ, pc, stack, resolved, unresolved>>

\* The dict iterates in insertion order, which is the order the skill
\* directories were listed in: any order of the keys.
DetectCycles ==
    /\ pc = "idle"
    /\ \E keyOrder \in Perms(DOMAIN skills) :
          /\ op' = "cycles"
          /\ arg' = ""
          /\ ret' = detect_circular_dependencies(skills, keyOrder)
          /\ exit_status' = ExitOnProblems(ret')
    /\ UNCHANGED <<skills, environ, pc, stack, resolved, unresolved>>

GetTools(n) ==
    /\ pc = "idle"
    /\ op' = "get-tools"
    /\ arg' = n
    /\ ret' = get_tools_for_skill(n, skills)
    /\ exit_status' = ExitNormally
    /\ UNCHANGED <<skills, environ, pc, stack, resolved, unresolved>>

BuildManifest(n) ==
    /\ pc = "idle"
    /\ op' = "tools"
    /\ arg' = n
    /\ ret' = generate_tool_manifest(n, skills)
    /\ exit_status' = ExitNormally
    /\ UNCHANGED <<skills, environ, pc, stack, resolved, unresolved>>

(***************************************************************************)
(* generate_dependency_graph and the `graph` command.  The text is the     *)
(* sequence of its lines (joined by "\n" in the code), a line the tuple of *)
(* the pieces of its f-string.                                             *)
(***************************************************************************)
\* name.replace("-", "_"), on the names the registries use.
SafeName(name) == IF name = "web-search" THEN "web_search" ELSE name

EdgeDrawn(dep, sk) == dep.name \in DOMAIN sk

\* Variant: the declaring skill is written first.
EdgeLineSkillFirst(dep, skill_name) ==
    <<"    ", SafeName(skill_name),
      IF dep.required THEN " -->|" ELSE " -.->|",
      IF dep.required THEN "required|" ELSE "optional|",
      IF dep.auto_load THEN " (auto)" ELSE "",
      " ", SafeName(dep.name)>>

\* f"    {dep_safe}{style}{label}{auto} {safe_name}"
EdgeLine(dep, skill_name) ==
    <<"    ", SafeName(dep.name),
      IF dep.required THEN " -->|" ELSE " -.->|",
      IF dep.required THEN "required|" ELSE "optional|",
      IF dep.auto_load THEN " (auto)" ELSE "",
      " ", SafeName(skill_name)>>

SkillLines(skill_name, sk) ==
    LET drawn == SelectSeq(sk[skill_name].dependencies.skills, LAMBDA dep : EdgeDrawn(dep, sk))
    IN [i \in 1..Len(drawn) |-> EdgeLine(drawn[i], skill_name)]

generate_dependency_graph(sk, keyOrder) ==
    <<<<"graph TD">>>> \o Flatten([i \in 1..Len(keyOrder) |-> SkillLines(keyOrder[i], sk)])

\* The adjacency object of `graph --format json`.
GraphJson(sk) ==
    [name \in DOMAIN sk |->
        [dependencies |-> [i \in 1..Len(sk[name].dependencies.skills) |->
                              sk[name].dependencies.skills[i].name],
         tools |-> [i \in 1..Len(sk[name].tools) |-> sk[name].tools[i].name]]]

Graph ==
    /\ pc = "idle"
    /\ op' = "graph"
    /\ \/ /\ arg' = "mermaid"
          /\ \E keyOrder \in Perms(DOMAIN skills) :
                ret' = generate_dependency_graph(skills, keyOrder)
       \/ /\ arg' = "json"
          /\ ret' = GraphJson(skills)
    /\ exit_status' = ExitNormally
    /\ UNCHANGED <<skills, environ, pc, stack, resolved, unresolved>>

Next ==
    \/ \E n \in Args : Validate(n)
    \/ CheckAll
    \/ \E n \in Args : Resolve(n)
    \/ DetectCycles
    \/ \E n \in Args : GetTools(n)
    \/ \E n \in Args : BuildManifest(n)
    \/ Graph

Spec == Init /\ [][Next]_vars

(***************************************************************************)
(* resolve_skill_dependencies, one step of the interpreter at a time: the  *)
(* call stack is explicit.  A frame holds the skill being expanded, the    *)
(* index of the next dependency of its loop and its local order/missing;   *)
(* `resolved` and `unresolved` are the two sets shared by the call tree.   *)
(***************************************************************************)
Top == stack[Len(stack)]

TopDeps == skills[Top.name].dependencies.skills

Frame(name) == [name |-> name, i |-> 1, order |-> <<>>, missing |-> <<>>]

\* What the callee does with its argument before any expansion.
CallOutcome(name) ==
    IF IsCircular(name, unresolved) THEN "circular"
    ELSE IF AlreadyResolved(name, resolved) THEN "resolved"
    ELSE IF name \notin DOMAIN skills THEN "notfound"
    ELSE "expand"

\* The caller's loop body after the callee returned (dep_order, dep_missing).
Returned(frame, dep_order, dep_missing) ==
    [name |-> frame.name, i |-> frame.i + 1,
     order |-> frame.order \o dep_order, missing |-> frame.missing \o dep_missing]

ReplaceTop(frame) == [stack EXCEPT ![Len(stack)] = frame]

\* Variant: the set of the previous call is used again (a default argument
\* evaluated once, at definition time).
DefaultSetShared(left) == left

\* `if resolved is None: resolved = set()`: a call with the default arguments
\* starts from a new empty set, whatever the sets of an earlier call hold.
DefaultSet(left) == {}

\* The outermost call, up to its first loop iteration or early return.
Enter(n) ==
    LET res == DefaultSet(resolved)
        unres == DefaultSet(unresolved)
        early(order, missing) ==
            /\ pc' = "done"
            /\ ret' = [order |-> order, missing |-> missing]
            /\ stack' = <<>>
            /\ unresolved' = unres
    IN /\ op' = "resolve"
       /\ arg' = n
       /\ resolved' = res
       /\ IF IsCircular(n, unres) THEN early(<<>>, <<CircularMsg(n)>>)
          ELSE IF AlreadyResolved(n, res) THEN early(<<>>, <<>>)
          ELSE IF n \notin DOMAIN skills THEN early(<<>>, NotFoundReturn(n))
          ELSE /\ pc' = "running"
               /\ ret' = <<>>
               /\ stack' = <<Frame(n)>>
               /\ unresolved' = unres \cup {n}
       /\ UNCHANGED <<skills, environ, exit_status>>

Call(n) ==
    /\ pc = "idle"
    /\ Enter(n)

\* A later call on the same registry, after an earlier one has returned.
CallAgain(n) ==
    /\ pc = "done"
    /\ Enter(n)

AtDep == pc = "running" /\ Top.i <= Len(TopDeps)

StepSkip ==
    /\ AtDep
    /\ ~Followed(TopDeps[Top.i])
    /\ stack' = ReplaceTop(Returned(Top, <<>>, <<>>))
    /\ UNCHANGED <<skills, environ, exit_status, op, arg, ret, pc, resolved, unresolved>>

StepCircular ==
    /\ AtDep
    /\ Followed(TopDeps[Top.i])
    /\ CallOutcome(TopDeps[Top.i].name) = "circular"
    /\ stack' = ReplaceTop(Returned(Top, <<>>, <<CircularMsg(TopDeps[Top.i].name)>>))
    /\ UNCHANGED <<skills, environ, exit_status, op, arg, ret, pc, resolved, unresolved>>

StepResolved ==
    /\ AtDep
    /\ Followed(TopDeps[Top.i])
    /\ CallOutcome(TopDeps[Top.i].name) = "resolved"
    /\ stack' = ReplaceTop(Returned(Top, <<>>, <<>>))
    /\ UNCHANGED <<skills, environ, exit_status, op, arg, ret, pc, resolved, unresolved>>

StepNotFound ==
    /\ AtDep
    /\ Followed(TopDeps[Top.i])
    /\ CallOutcome(TopDeps[Top.i].name) = "notfound"
    /\ stack' = ReplaceTop(Returned(Top, <<>>, NotFoundReturn(TopDeps[Top.i].name)))
    /\ UNCHANGED <<skills, environ, exit_status, op, arg, ret, pc, resolved, unresolved>>

StepExpand ==
    /\ AtDep
    /\ Followed(TopDeps[Top.i])
    /\ CallOutcome(TopDeps[Top.i].name) = "expand"
    /\ Len(stack) < MaxDepth
    /\ stack' = Append(stack, Frame(TopDeps[Top.i].name))
    /\ unresolved' = unresolved \cup {TopDeps[Top.i].name}
    /\ UNCHANGED <<skills, environ, exit_status, op, arg, ret, pc, resolved>>

StepReturn ==
    /\ pc = "running"
    /\ Top.i > Len(TopDeps)
    /\ unresolved' = unresolved \ {Top.name}
    /\ resolved' = resolved \cup {Top.name}
    /\ IF Len(stack) = 1
       THEN /\ pc' = "done"
            /\ ret' = [order |-> PlaceSelf(Top.order, Top.name), missing |-> Top.missing]
            /\ stack' = <<>>
       ELSE /\ stack' = [SubSeq(stack, 1, Len(stack) - 1) EXCEPT ![Len(stack) - 1] =
                            Returned(stack[Len(stack) - 1], PlaceSelf(Top.order, Top.name), Top.missing)]
            /\ UNCHANGED <<pc, ret>>
    /\ UNCHANGED <<skills, environ, exit_status, op, arg>>

NextSteps ==
    \/ \E n \in Args : Call(n)
    \/ \E n \in Args : CallAgain(n)
    \/ StepSkip
    \/ StepCircular
    \/ StepResolved
    \/ StepNotFound
    \/ StepExpand
    \/ StepReturn

\* The interpreter always takes the next step of a running call.
SpecSteps == Init /\ [][NextSteps]_vars /\ WF_vars(NextSteps)

\* The operations in any sequence, followed by calls of the resolver.
NextCalls ==
    \/ Next
    \/ NextSteps

\* Neither the operations' frame nor the sets of a call depend on the shape
\* of a large graph: the registries are those of the tool family (two skills,
\* every flag combination, a two-cycle) and of the worked examples.
InitCalls ==
    /\ (ToolInput \/ ExampleInput)
    /\ op = "none"
    /\ arg = ""
    /\ ret = <<>>
    /\ exit_status = 0
    /\ pc = "idle"
    /\ stack = <<>>
    /\ resolved = {}
    /\ unresolved = {}

SpecCalls == InitCalls /\ [][NextCalls]_vars

(***************************************************************************)
(* Graph notions the properties are stated in.  They read the registry     *)
(* directly and use none of the operators above.                           *)
(***************************************************************************)
DepsOf(sk, n) == sk[n].dependencies.skills

\* The declared edges, as (declaring skill, position in its list).
EdgeSlots(sk) == UNION {{<<n, i>> : i \in 1..Len(DepsOf(sk, n))} : n \in DOMAIN sk}

Edge(sk, slot) == DepsOf(sk, slot[1])[slot[2]]

\* (source, target) pairs; the target may be absent from the registry.
AllEdges(sk) == {<<slot[1], Edge(sk, slot).name>> : slot \in EdgeSlots(sk)}

RequiredOrAutoEdges(sk) ==
    {<<slot[1], Edge(sk, slot).name>> :
        slot \in {x \in EdgeSlots(sk) : Edge(sk, x).required \/ Edge(sk, x).auto_load}}

AutoEdges(sk) ==
    {<<slot[1], Edge(sk, slot).name>> : slot \in {x \in EdgeSlots(sk) : Edge(sk, x).auto_load}}

RECURSIVE Closure(_, _)
Closure(S, E) ==
    LET T == S \cup {e[2] : e \in {f \in E : f[1] \in S}}
    IN IF T = S THEN S ELSE Closure(T, E)

\* The names reachable from n in zero or more edges of E.
Reach(E, n) == Closure({n}, E)

\* Some edge of E leaving a node of S lies on a cycle.
HasCycle(E, S) == \E e \in E : e[1] \in S /\ e[1] \in Reach(E, e[2])

Count(seq, x) == Cardinality({i \in 1..Len(seq) : seq[i] = x})

Pos(seq, x) == CHOOSE i \in 1..Len(seq) : seq[i] = x

NoDuplicates(seq) == \A i, j \in 1..Len(seq) : seq[i] = seq[j] => i = j

ResolveDone == op = "resolve" /\ pc # "running" /\ arg \in DOMAIN skills

\* C1: when the required-or-auto-load graph reachable from `name` is acyclic,
\* every registered dependency reached by a required-or-auto-load edge of a
\* skill S of the returned order stands at a strictly earlier position than S.
C1_DependenciesFirst ==
    (ResolveDone /\ ~HasCycle(RequiredOrAutoEdges(skills), Reach(RequiredOrAutoEdges(skills), arg)))
    => \A i \in 1..Len(ret.order) : \A e \in RequiredOrAutoEdges(skills) :
          (e[1] = ret.order[i] /\ e[2] \in DOMAIN skills)
          => \E j \in 1..(i - 1) : ret.order[j] = e[2]

C1_Witness ==
    /\ ResolveDone
    /\ ~HasCycle(RequiredOrAutoEdges(skills), Reach(RequiredOrAutoEdges(skills), arg))
    /\ Len(ret.order) >= 3
    /\ \E e \in RequiredOrAutoEdges(skills) : e[1] = arg /\ e[2] \in DOMAIN skills /\ e[2] # ret.order[1]

\* C2: for every registry, cyclic or not, the returned order holds no name
\* twice, holds exactly the registered skills reachable from `name` through
\* required-or-auto-load edges, and ends with `name`; in the diamond the order
\* holds D once, before B and C, which stand before A.
C2_OrderIsReachableSetOnce ==
    ResolveDone
    => /\ NoDuplicates(ret.order)
       /\ SeqToSet(ret.order) = Reach(RequiredOrAutoEdges(skills), arg) \cap DOMAIN skills
       /\ ret.order[Len(ret.order)] = arg
       /\ (skills = Diamond /\ arg = "A")
          => /\ Count(ret.order, "D") = 1
             /\ Pos(ret.order, "D") < Pos(ret.order, "B")
             /\ Pos(ret.order, "D") < Pos(ret.order, "C")
             /\ Pos(ret.order, "B") < Pos(ret.order, "A")
             /\ Pos(ret.order, "C") < Pos(ret.order, "A")

C2_Witness == ResolveDone /\ skills = Diamond /\ arg = "A" /\ Len(ret.order) = 4

\* C4: every required-or-auto-load edge to a name that is not a key of the
\* registry, declared by a skill of the traversal, adds one "Skill not found"
\* entry for that name to `missing`; the name is not in `order`, and the skills
\* declaring such edges are still placed.  A requiring only the absent C gives
\* order = [A] and missing = ["Skill not found: C"].
DanglingEdgeCount(sk, from, t) ==
    Cardinality({x \in EdgeSlots(sk) :
                    /\ x[1] \in from
                    /\ Edge(sk, x).name = t
                    /\ (Edge(sk, x).required \/ Edge(sk, x).auto_load)})

C4_DanglingReported ==
    ResolveDone
    => LET reached == Reach(RequiredOrAutoEdges(skills), arg) \cap DOMAIN skills
       IN /\ \A t \in AllNames \ DOMAIN skills :
               /\ Count(ret.missing, <<"Skill not found: ", t>>) = DanglingEdgeCount(skills, reached, t)
               /\ t \notin SeqToSet(ret.order)
          /\ reached \subseteq SeqToSet(ret.order)
          /\ \A t \in AllNames \ DOMAIN skills :
               DepsOf(skills, arg) = <<SkillDependency(t, TRUE, FALSE)>>
               => ret = [order |-> <<arg>>, missing |-> <<<<"Skill not found: ", t>>>>]

C4_Witness ==
    /\ ResolveDone
    /\ arg = "A"
    /\ "C" \notin DOMAIN skills
    /\ DepsOf(skills, "A") = <<SkillDependency("C", TRUE, FALSE)>>
    /\ ret = [order |-> <<"A">>, missing |-> <<<<"Skill not found: ", "C">>>>]

\* C3: every call terminates, on cyclic registries too.  No name is expanded
\* while it is being expanded (the names of the call stack are pairwise
\* distinct and are exactly `unresolved`); a required-or-auto-load edge to a
\* name on the stack appends "Circular dependency detected: <name>" to the
\* caller's missing list without a new expansion, and the caller goes on to its
\* next edge; at the end every registered skill reachable from `name` is
\* placed.  A whose only edge is a required edge to itself gives order = [A],
\* missing = ["Circular dependency detected: A"].
StackNames == [i \in 1..Len(stack) |-> stack[i].name]

C3_StackDistinct == NoDuplicates(StackNames) /\ SeqToSet(StackNames) = unresolved

C3_Final ==
    (pc = "done" /\ arg \in DOMAIN skills)
    => /\ Reach(RequiredOrAutoEdges(skills), arg) \cap DOMAIN skills \subseteq SeqToSet(ret.order)
       /\ DepsOf(skills, arg) = <<SkillDependency(arg, TRUE, FALSE)>>
          => ret = [order |-> <<arg>>, missing |-> <<<<"Circular dependency detected: ", arg>>>>]

C3_PruneStep ==
    (/\ pc = "running"
     /\ Top.i <= Len(TopDeps)
     /\ (TopDeps[Top.i].required \/ TopDeps[Top.i].auto_load)
     /\ TopDeps[Top.i].name \in SeqToSet(StackNames))
    => /\ StackNames' = StackNames
       /\ unresolved' = unresolved
       /\ Top'.i = Top.i + 1
       /\ Top'.order = Top.order
       /\ Top'.missing = Append(Top.missing, <<"Circular dependency detected: ", TopDeps[Top.i].name>>)

C3_TerminatesPruningCycles ==
    /\ (pc = "running") ~> (pc = "done")
    /\ [](C3_StackDistinct /\ C3_Final)
    /\ [][C3_PruneStep]_vars

C3_Witness ==
    /\ pc = "done"
    /\ arg = "A"
    /\ "A" \in DOMAIN skills
    /\ Len(DepsOf(skills, "A")) = 2
    /\ DepsOf(skills, "A")[1].name = "A"
    /\ ret = [order |-> <<"B", "A">>, missing |-> <<<<"Circular dependency detected: ", "A">>>>]

\* C5: getTools(name) is the concatenation of the tool lists of exactly the
\* registered skills reachable from `name` through auto-load edges (whatever
\* their `required` flag), each skill once, and, when no auto-load cycle is
\* reachable, with the tools of an auto-load dependency before those of the
\* skill that depends on it; A auto-loading B auto-loading C gives C's tools,
\* then B's, then A's.
ToolsOf(sk, order) == Flatten([i \in 1..Len(order) |-> sk[order[i]].tools])

C5_ToolsOfAutoClosure ==
    op = "get-tools"
    => LET auto == AutoEdges(skills)
           reached == Reach(auto, arg) \cap DOMAIN skills
       IN /\ \E order \in Perms(reached) :
               /\ ret = ToolsOf(skills, order)
               /\ ~HasCycle(auto, Reach(auto, arg))
                  => \A i, j \in 1..Len(order) : <<order[i], order[j]>> \in auto => j < i
          /\ (skills = AutoChain /\ arg = "A")
             => ret = skills["C"].tools \o skills["B"].tools \o skills["A"].tools

C5_Witness ==
    /\ op = "get-tools"
    /\ arg = "A"
    /\ DOMAIN skills = {"A", "B", "C"}
    /\ DepsOf(skills, "A") = <<SkillDependency("B", FALSE, TRUE), SkillDependency("C", TRUE, FALSE)>>
    /\ ret = skills["B"].tools \o skills["A"].tools
    /\ Len(ret) = 2

\* C6: the keys of toolIndex are exactly the names and the aliases of the
\* tools of the manifest, which are the tools getTools(name) returns, and each
\* key maps to the definition of the last tool in traversal order that has the
\* key as its name or as one of its aliases.
HasKey(tool_def, key) == tool_def.name = key \/ key \in SeqToSet(tool_def.aliases)

LastWith(tools, key) ==
    CHOOSE i \in 1..Len(tools) :
        HasKey(tools[i], key) /\ \A j \in (i + 1)..Len(tools) : ~HasKey(tools[j], key)

C6_ToolIndexLastWins ==
    op = "tools"
    => /\ Len(ret.tools) = Len(get_tools_for_skill(arg, skills))
       /\ \A i \in 1..Len(ret.tools) :
             /\ ret.tools[i].name = get_tools_for_skill(arg, skills)[i].name
             /\ ret.tools[i].command = get_tools_for_skill(arg, skills)[i].command
             /\ ret.tools[i].aliases = get_tools_for_skill(arg, skills)[i].aliases
       /\ DOMAIN ret.tool_index =
             {ret.tools[i].name : i \in 1..Len(ret.tools)}
             \cup UNION {SeqToSet(ret.tools[i].aliases) : i \in 1..Len(ret.tools)}
       /\ \A key \in DOMAIN ret.tool_index :
             ret.tool_index[key] = ret.tools[LastWith(ret.tools, key)]

C6_Witness ==
    /\ op = "tools"
    /\ Len(ret.tools) = 2
    /\ ret.tools[1] # ret.tools[2]
    /\ ret.tools[1].name = "t1"
    /\ ret.tools[2].name = "t2"
    /\ ret.tools[2].aliases = <<"t1">>
    /\ ret.tool_index["t1"] = ret.tools[2]

\* C7: detectCycles() returns a non-empty list exactly when the graph of all
\* skill-dependency edges between registered skills, whatever their flags,
\* contains a cycle (a self-edge included); when two registered skills depend
\* on each other, some reported cycle contains both.
RegisteredEdges(sk) == {e \in AllEdges(sk) : e[2] \in DOMAIN sk}

C7_CyclesIffCyclic ==
    op = "cycles"
    => /\ (ret # <<>>) <=> HasCycle(RegisteredEdges(skills), DOMAIN skills)
       /\ \A e \in RegisteredEdges(skills) :
             <<e[2], e[1]>> \in RegisteredEdges(skills)
             => \E i \in 1..Len(ret) : {e[1], e[2]} \subseteq SeqToSet(ret[i])

C7_Witness ==
    /\ op = "cycles"
    /\ ret # <<>>
    /\ DOMAIN skills = {"A", "B"}
    /\ RegisteredEdges(skills) = {<<"A", "B">>, <<"B", "A">>}
    /\ \A x \in EdgeSlots(skills) : ~Edge(skills, x).required /\ ~Edge(skills, x).auto_load

\* C8: validate(name) of a registered skill holds one "Missing dependency"
\* message naming target and dependent for every edge, required or optional,
\* whose target is not a key of the registry, and none for a registered
\* target; the result is empty exactly when the skill has no dangling edge, no
\* missing required environment variable (one that validate reports: unset or
\* set to the empty string) and no tool with an empty name or category.
ValidateDone == op = "validate" /\ arg \in DOMAIN skills

EdgesTo(sk, n, t) == Cardinality({i \in 1..Len(DepsOf(sk, n)) : DepsOf(sk, n)[i].name = t})

EnvReqs(sk, n) == sk[n].dependencies.environment

C8_MissingDependencyPerDanglingEdge ==
    ValidateDone
    => /\ \A t \in AllNames :
             Count(ret, <<"Missing dependency: '", t, "' required by '", arg, "'">>)
             = IF t \in DOMAIN skills THEN 0 ELSE EdgesTo(skills, arg, t)
       /\ (ret = <<>>) <=>
             /\ \A i \in 1..Len(DepsOf(skills, arg)) : DepsOf(skills, arg)[i].name \in DOMAIN skills
             /\ \A i \in 1..Len(EnvReqs(skills, arg)) :
                   EnvReqs(skills, arg)[i].required
                   => /\ EnvReqs(skills, arg)[i].name \in DOMAIN environ
                      /\ environ[EnvReqs(skills, arg)[i].name] # ""
             /\ \A i \in 1..Len(skills[arg].tools) :
                   skills[arg].tools[i].name # "" /\ skills[arg].tools[i].category # ""

C8_Witness ==
    /\ ValidateDone
    /\ arg = "A"
    /\ Len(DepsOf(skills, "A")) = 2
    /\ DepsOf(skills, "A")[1] = SkillDependency("C", FALSE, FALSE)
    /\ DepsOf(skills, "A")[2].name = "B"
    /\ DOMAIN skills = {"A", "B"}
    /\ ret = <<<<"Missing dependency: '", "C", "' required by '", "A", "'">>>>

\* C9 as stated: a "Missing required environment variable" message is emitted
\* for a requirement exactly when it is marked required and its variable is
\* absent from the environment.
EnvMessages(v) == Count(ret, <<"Missing required environment variable: ", v>>)

RequiredCount(sk, n, v) ==
    Cardinality({i \in 1..Len(EnvReqs(sk, n)) : EnvReqs(sk, n)[i].name = v /\ EnvReqs(sk, n)[i].required})

C9_Original_MessageIffRequiredAndAbsent ==
    ValidateDone
    => \A v \in EnvNames :
          EnvMessages(v) = IF v \notin DOMAIN environ THEN RequiredCount(skills, arg, v) ELSE 0

\* C9 as amended: a "Missing required environment variable" message is emitted
\* for a requirement exactly when it is marked required and its variable is
\* absent from the environment or set to the empty string.
C9_MessageIffRequiredAndUnsetOrEmpty ==
    ValidateDone
    => \A v \in EnvNames :
          EnvMessages(v) = IF v \notin DOMAIN environ \/ environ[v] = ""
                           THEN RequiredCount(skills, arg, v) ELSE 0

C9_Witness ==
    /\ ValidateDone
    /\ "E1" \in DOMAIN environ
    /\ environ["E1"] = ""
    /\ "E2" \in DOMAIN environ
    /\ environ["E2"] = "v"
    /\ EnvReqs(skills, arg) = <<EnvironmentRequirement("E1", TRUE), EnvironmentRequirement("E2", TRUE)>>
    /\ ret = <<<<"Missing required environment variable: ", "E1">>>>

\* C10: checkAll() returns a mapping whose keys are exactly the registered
\* skills with a non-empty validate result, each mapped to that result; the
\* errors of one skill do not keep another skill from being validated.
C10_CheckAllKeepsFailingOnly ==
    op = "check-deps"
    => /\ DOMAIN ret = {n \in DOMAIN skills : validate_skill(n, skills, environ) # <<>>}
       /\ \A n \in DOMAIN ret : ret[n] = validate_skill(n, skills, environ)

C10_Witness ==
    /\ op = "check-deps"
    /\ skills = PartlyBroken
    /\ DOMAIN ret = {"A", "C"}
    /\ ret["C"] = <<<<"Missing dependency: '", "D", "' required by '", "C", "'">>>>

(***************************************************************************)
(* Building the registry: parse_skill and collect_all_skills of            *)
(* skill_resolver.py, and collect_skills of generate_agents.py, over the   *)
(* entries of the skills directory.  An entry is a plain file, a directory *)
(* without SKILL.md, or a directory whose SKILL.md frontmatter gives a     *)
(* name and a description; "" stands for a key that is absent or empty     *)
(* (both are falsy, and both read as "" through .get(key, "")).  The tools *)
(* and dependencies of the frontmatter are carried empty.                  *)
(***************************************************************************)
\* Entries of the skills directory, at most.
MaxSources == 3

SourceNames == {"", "A", "B"}
SourceDescriptions == {"", "d", "e"}

SkillDir(name, description) ==
    [is_dir |-> TRUE, skill_md |-> TRUE, name |-> name, description |-> description]

PlainFile == [is_dir |-> FALSE, skill_md |-> FALSE, name |-> "", description |-> ""]

EmptyDir == [is_dir |-> TRUE, skill_md |-> FALSE, name |-> "", description |-> ""]

Sources ==
    {PlainFile, EmptyDir}
        \cup {SkillDir(n, d) : n \in SourceNames, d \in SourceDescriptions}

\* None is <<>>, a SkillMeta is the one-element sequence holding it.
parse_skill(src) ==
    IF ~src.skill_md THEN <<>>
    ELSE IF src.name = "" THEN <<>>
    ELSE <<[SkillMeta(src.name, <<>>, <<>>, <<>>) EXCEPT !.description = src.description]>>

\* skills[meta.name] = meta
RegistryPut(sk, meta) ==
    [k \in DOMAIN sk \cup {meta.name} |-> IF k = meta.name THEN meta ELSE sk[k]]

RECURSIVE collect_all_skills(_)
collect_all_skills(sources) ==
    IF sources = <<>> THEN EmptyFn
    ELSE LET before == collect_all_skills(SubSeq(sources, 1, Len(sources) - 1))
             skill_dir == sources[Len(sources)]
             meta == parse_skill(skill_dir)
         IN IF skill_dir.is_dir /\ meta # <<>>
            THEN RegistryPut(before, meta[1])
            ELSE before

\* generate_agents.py: the entries the glob skills/*/SKILL.md yields, less
\* those without a name or without a description.
AgentsKept(src) == src.skill_md /\ ~(src.name = "" \/ src.description = "")

AgentsEntry(src) == [name |-> src.name, description |-> src.description]

\* sorted(skills, key=name.lower()): a stable sort, here over the two names.
SortedByName(list) ==
    SelectSeq(list, LAMBDA s : s.name = "A") \o SelectSeq(list, LAMBDA s : s.name = "B")

RECURSIVE AgentsLoop(_)
AgentsLoop(sources) ==
    IF sources = <<>> THEN <<>>
    ELSE LET before == AgentsLoop(SubSeq(sources, 1, Len(sources) - 1))
             src == sources[Len(sources)]
         IN IF AgentsKept(src) THEN Append(before, AgentsEntry(src)) ELSE before

collect_skills(sources) == SortedByName(AgentsLoop(sources))

InitLoad ==
    /\ skills = EmptyFn
    /\ environ = EmptyFn
    /\ op = "none"
    /\ arg = <<>>
    /\ ret = <<>>
    /\ exit_status = 0
    /\ pc = "start"
    /\ stack = <<>>
    /\ resolved = {}
    /\ unresolved = {}

\* The directory listing comes in any order and with any content.
CollectAllSkills ==
    /\ pc = "start"
    /\ \E sources \in SeqsUpTo(Sources, MaxSources) :
          /\ arg' = sources
          /\ skills' = collect_all_skills(sources)
    /\ op' = "collect_all_skills"
    /\ ret' = <<>>
    /\ pc' = "idle"
    /\ UNCHANGED <<environ, exit_status, stack, resolved, unresolved>>

AgentsCollectSkills ==
    /\ pc = "start"
    /\ \E sources \in SeqsUpTo(Sources, MaxSources) :
          /\ arg' = sources
          /\ ret' = collect_skills(sources)
    /\ op' = "collect_skills"
    /\ pc' = "idle"
    /\ UNCHANGED <<skills, environ, exit_status, stack, resolved, unresolved>>

NextLoad ==
    \/ CollectAllSkills
    \/ AgentsCollectSkills

SpecLoad == InitLoad /\ [][NextLoad]_vars

\* The sources the claim counts as valid, and the last of them with a name.
HasNameAndDescription(src) ==
    src.is_dir /\ src.skill_md /\ src.name # "" /\ src.description # ""

LastValid(sources, k) ==
    CHOOSE i \in 1..Len(sources) :
        /\ HasNameAndDescription(sources[i]) /\ sources[i].name = k
        /\ \A j \in (i + 1)..Len(sources) :
              ~(HasNameAndDescription(sources[j]) /\ sources[j].name = k)

\* C11: the registry built from the skill sources holds exactly the names of
\* the sources that have both a name and a description; every key maps to a
\* record with that name and a non-empty description; and of several valid
\* sources with one name the record of the one loaded last is kept.
C11_RegistryKeepsNamedAndDescribed ==
    op = "collect_all_skills"
    => /\ DOMAIN skills = {arg[i].name : i \in {j \in 1..Len(arg) : HasNameAndDescription(arg[j])}}
       /\ \A k \in DOMAIN skills :
             /\ skills[k].name = k
             /\ skills[k].name # ""
             /\ skills[k].description # ""
             /\ skills[k].description = arg[LastValid(arg, k)].description

\* C12: a command exits with status 1 exactly when it reports a problem:
\* validate when validate(NAME) is non-empty, check-deps when some skill has
\* errors, cycles when a cycle was found, resolve when the name is not
\* registered or the missing list is non-empty, tools when the name is not
\* registered; the status is 0 otherwise.
C12_ExitOneIffProblemReported ==
    /\ exit_status \in {0, 1}
    /\ op = "validate" => (exit_status = 1 <=> ret # <<>>)
    /\ op = "check-deps" => (exit_status = 1 <=> DOMAIN ret # {})
    /\ op = "cycles" => (exit_status = 1 <=> ret # <<>>)
    /\ op = "resolve" => (exit_status = 1 <=> (arg \notin DOMAIN skills \/ ret.missing # <<>>))
    /\ op = "tools" => (exit_status = 1 <=> arg \notin DOMAIN skills)

GraphDone == op = "graph" /\ arg = "mermaid"

\* The edge lines of the diagram: everything after the "graph TD" header.
EdgeLines == Tail(ret)

DrawnSlots(sk) == {slot \in EdgeSlots(sk) : Edge(sk, slot).name \in DOMAIN sk}

Arrow(dep) == IF dep.required THEN <<" -->|", "required|">> ELSE <<" -.->|", "optional|">>

AutoMark(dep) == IF dep.auto_load THEN " (auto)" ELSE ""

\* The line `from ARROW[ (auto)] to` of one edge.
LineFromTo(from, dep, to) ==
    <<"    ", SafeName(from), Arrow(dep)[1], Arrow(dep)[2], AutoMark(dep), " ", SafeName(to)>>

\* C13 as stated: the diagram has exactly one edge line for every declared
\* skill-dependency edge of every registered skill, written from the
\* declaring skill to the edge's target with the arrow of its `required` flag
\* and " (auto)" exactly when auto_load is set.
C13_Original_OneLinePerEdgeFromDeclaringSkill ==
    GraphDone
    => /\ Len(EdgeLines) = Cardinality(EdgeSlots(skills))
       /\ \A slot \in EdgeSlots(skills) :
             LET line == LineFromTo(slot[1], Edge(skills, slot), Edge(skills, slot).name)
             IN Count(EdgeLines, line)
                  = Cardinality({x \in EdgeSlots(skills) :
                        LineFromTo(x[1], Edge(skills, x), Edge(skills, x).name) = line})

\* C13: the diagram starts with "graph TD" and then has exactly one edge line
\* for every declared edge whose target is registered and none for the other
\* edges; the line is written from the edge's target to the declaring skill,
\* "-" in a name replaced by "_", with `-->|required|` for a required edge and
\* `-.->|optional|` otherwise, followed by " (auto)" exactly when auto_load
\* is set.
C13_OneLinePerRegisteredEdgeTargetFirst ==
    GraphDone
    => /\ Head(ret) = <<"graph TD">>
       /\ Len(EdgeLines) = Cardinality(DrawnSlots(skills))
       /\ \A slot \in DrawnSlots(skills) :
             LET line == LineFromTo(Edge(skills, slot).name, Edge(skills, slot), slot[1])
             IN Count(EdgeLines, line)
                  = Cardinality({x \in DrawnSlots(skills) :
                        LineFromTo(Edge(skills, x).name, Edge(skills, x), x[1]) = line})

\* A registry with a drawn auto-load edge and an undrawn dangling one.
C13_Witness ==
    /\ GraphDone
    /\ DOMAIN skills = {"A", "B"}
    /\ DepsOf(skills, "A") = <<SkillDependency("B", TRUE, TRUE), SkillDependency("C", FALSE, FALSE)>>
    /\ DepsOf(skills, "B") = <<>>
    /\ ret = <<<<"graph TD">>, <<"    ", "B", " -->|", "required|", " (auto)", " ", "A">>>>

\* C14: no operation changes the registry; a call of the resolver with the
\* default arguments starts from empty resolved/unresolved sets whatever an
\* earlier call left behind; so every such call, the first or a repeated one,
\* returns the (order, missing) of a call made on a fresh interpreter.
C14_RegistryFrameAndFreshCalls ==
    /\ [][skills' = skills]_vars
    /\ [][(pc # "running" /\ pc' = "running") => (resolved' = {} /\ unresolved' = {arg'})]_vars
    /\ [](pc = "done" => ret = resolveOrder(arg, skills))

\* A resolver call that returned after an earlier command had exited with 1,
\* on a registry with a followed edge: the finished call's sets are non-empty.
C14_Witness ==
    /\ pc = "done"
    /\ exit_status = 1
    /\ arg = "A"
    /\ DOMAIN skills = {"A", "B"}
    /\ resolved = {"A", "B"}
    /\ unresolved = {}
    /\ ret = [order |-> <<"B", "A">>, missing |-> <<>>]

\* The registered skills from which some cycle of registered edges is reachable.
CyclicStarts(sk) ==
    {s \in DOMAIN sk : HasCycle(RegisteredEdges(sk), Reach(RegisteredEdges(sk), s))}

\* C15: every cycle detectCycles() returns starts and ends with the same
\* name, its elements before the last are pairwise distinct registered skills,
\* and each consecutive pair (x, y) is an edge declared by x; the scan from
\* one start alone (fresh visited set) reports a cycle whenever one is
\* reachable from it, and the result, which is not de-duplicated, has at
\* least one entry per such start.
C15_CyclesAreClosedSubPaths ==
    op = "cycles"
    => /\ \A i \in 1..Len(ret) :
             LET cycle == ret[i]
                 n == Len(cycle)
             IN /\ n >= 2
                /\ cycle[1] = cycle[n]
                /\ NoDuplicates(SubSeq(cycle, 1, n - 1))
                /\ \A j \in 1..(n - 1) :
                      /\ cycle[j] \in DOMAIN skills
                      /\ <<cycle[j], cycle[j + 1]>> \in AllEdges(skills)
       /\ \A s \in CyclicStarts(skills) : detect_circular_dependencies(skills, <<s>>) # <<>>
       /\ Len(ret) >= Cardinality(CyclicStarts(skills))

\* A reaches the self-loop of B: the scan from A and the scan from B each
\* report [B, B], the tail of the path [A, B] from the repeated name.
C15_Witness ==
    /\ op = "cycles"
    /\ DOMAIN skills = {"A", "B"}
    /\ AllEdges(skills) = {<<"A", "B">>, <<"B", "B">>}
    /\ ret = <<<<"B", "B">>, <<"B", "B">>>>

HasCircularEntry(missing) ==
    \E i \in 1..Len(missing) : missing[i][1] = "Circular dependency detected: "

\* C16: for a registered name, the missing list of resolveOrder(name) is
\* empty exactly when, among the names reachable from it over
\* required-or-auto-load edges, no such edge leads to an unregistered name and
\* none lies on a cycle; and when the list holds a "Circular dependency
\* detected" entry, detectCycles() is non-empty whatever the scan order.
C16_MissingEmptyIffClosedAndAcyclic ==
    ResolveDone
    => LET followed == RequiredOrAutoEdges(skills)
           reached == Reach(followed, arg)
       IN /\ (ret.missing = <<>>)
                <=> /\ \A e \in followed : e[1] \in reached => e[2] \in DOMAIN skills
                    /\ ~HasCycle(followed, reached)
          /\ HasCircularEntry(ret.missing)
                => \A keyOrder \in Perms(DOMAIN skills) :
                      detect_circular_dependencies(skills, keyOrder) # <<>>

\* A requires B and B auto-loads A: B is placed, the edge back to A is cut.
C16_Witness ==
    /\ ResolveDone
    /\ arg = "A"
    /\ DOMAIN skills = {"A", "B"}
    /\ DepsOf(skills, "A") = <<SkillDependency("B", TRUE, FALSE)>>
    /\ DepsOf(skills, "B") = <<SkillDependency("A", FALSE, TRUE)>>
    /\ ret = [order |-> <<"B", "A">>, missing |-> <<<<"Circular dependency detected: ", "A">>>>]

====
